---- MODULE Spec2Model ----
(***************************************************************************)
(* Playlist download pipeline of SpotifyDownloaderAPI (src/app.py):        *)
(* start_download / stop_download on the foreground path, the              *)
(* download_worker thread body, download_track and the helpers they use.   *)
(* Every worker step is one access to the shared fields is_downloading,    *)
(* download_progress or the destination directory, together with the       *)
(* thread-local computation that precedes the next shared access.          *)
(***************************************************************************)
EXTENDS Integers, Sequences, FiniteSets, TLC

\* ------------------------------------------------------------------ bounds
MaxRuns == 2        \* worker threads start_download may launch in one behaviour
MaxTracks == 2      \* longest playlist the catalog returns
MaxCandidates == 4  \* most video ids one search page yields
MaxItems == 250     \* longest playlist listed page by page
MaxName == 3        \* longest file name handed to sanitize_filename
MaxSegments == 5    \* most segments a URL handed to extract_playlist_id has
ApiTracks == 1      \* longest playlist in the behaviours that change the folder
FairTracks == 1     \* longest playlist in the behaviours with fair scheduling

\* --------------------------------------------------------------- characters
Lower == {"a","b","c","d","e","f","g","h","i","j","k","l","m",
          "n","o","p","q","r","s","t","u","v","w","x","y","z"}
Upper == {"A","B","C","D","E","F","G","H","I","J","K","L","M",
          "N","O","P","Q","R","S","T","U","V","W","X","Y","Z"}
Digits == {"0","1","2","3","4","5","6","7","8","9"}

\* string.ascii_letters + string.digits, the class [a-zA-Z0-9]
Alnum == Lower \cup Upper \cup Digits

\* the allowed set letting the path separator through
ValidWithSlash == {"-", "_", ".", "(", ")", " ", "/"} \cup Alnum

\* app.py:145  valid_chars = f"-_.() {string.ascii_letters}{string.digits}"
valid_chars == {"-", "_", ".", "(", ")", " "} \cup Alnum

\* app.py:146  ''.join(c for c in filename if c in valid_chars)
sanitize_filename(filename) ==
    LET keep(c) == c \in valid_chars IN SelectSeq(filename, keep)

\* ------------------------------------------------------ extract_playlist_id
PlaylistWord == <<"p","l","a","y","l","i","s","t">>

\* the pattern 'playlist' sep '([a-zA-Z0-9]+)' matches url at position p
MatchesAt(url, sep, p) ==
    /\ p + Len(PlaylistWord) + 1 <= Len(url)
    /\ SubSeq(url, p, p + Len(PlaylistWord) - 1) = PlaylistWord
    /\ url[p + Len(PlaylistWord)] = sep
    /\ url[p + Len(PlaylistWord) + 1] \in Alnum

\* group(1) of the match at p: the maximal run of alphanumerics after sep
Captured(url, p) ==
    LET from == p + Len(PlaylistWord) + 1
        ends == {e \in from..Len(url) :
                    /\ \A q \in from..e : url[q] \in Alnum
                    /\ (e = Len(url) \/ url[e + 1] \notin Alnum)}
    IN SubSeq(url, from, CHOOSE e \in ends : TRUE)

\* re.search(pattern, url): the leftmost match, <<>> when there is none
Search(url, sep) ==
    LET hits == {p \in 1..Len(url) : MatchesAt(url, sep, p)}
    IN IF hits = {} THEN <<>>
       ELSE Captured(url, CHOOSE p \in hits : \A q \in hits : p <= q)

\* the two patterns tried in the other order
ColonFirst(playlist_url) ==
    IF Search(playlist_url, ":") # <<>> THEN Search(playlist_url, ":")
    ELSE Search(playlist_url, "/")

\* app.py:91-102; None is modelled as the empty sequence (a capture is never empty)
extract_playlist_id(playlist_url) ==
    IF Search(playlist_url, "/") # <<>> THEN Search(playlist_url, "/")
    ELSE Search(playlist_url, ":")

\* ------------------------------------------------------------------ inputs
\* URLs the presentation layer passes to start_download
ValidUrl == <<"p","l","a","y","l","i","s","t","/","3","7","i">>
InvalidUrl == <<"n","o","t"," ","a"," ","u","r","l">>
Urls == {ValidUrl, InvalidUrl}

\* playlist items as the catalog returns them; type "null" is an item whose
\* 'track' is None, type "episode" an item whose track is not of type 'track'
\* (it carries artists and a name, so the label of app.py:278 can be built)
TrackA == [type |-> "track", artist |-> <<"A">>, name |-> <<"x", "/">>]
TrackB == [type |-> "track", artist |-> <<"B">>, name |-> <<"y">>]
Episode == [type |-> "episode", artist |-> <<"E">>, name |-> <<"z">>]
NullItem == [type |-> "null", artist |-> <<>>, name |-> <<>>]
Items == {TrackA, TrackB, Episode, NullItem}

Playlists == UNION {[1..n -> Items] : n \in 0..MaxTracks}

\* app.py:278  f"{artist} - {name}"
Label(item) == item.artist \o <<" ", "-", " ">> \o item.name

\* app.py:174-175  sanitize_filename(f"{artist_name} - {track_name}") + ".mp3"
final_file(item) == sanitize_filename(Label(item)) \o <<".", "m", "p", "3">>

\* ------------------------------------------------------------------- state
VARIABLES
    is_downloading,     \* app.py:41  the shared flag
    download_progress,  \* app.py:42  the shared progress record
    result,             \* what the last start_download call returned
    launched,           \* number of worker threads started so far
    pc,                 \* per worker: the statement it executes next
    playlist_url,       \* per worker: the url its closure captured
    idx,                \* per worker: tracks begun (i + 1 of the loop)
    successful_downloads, \* per worker: the local success counter
    left,               \* per worker: candidates still to try for the track
    found,              \* per worker: len(video_ids) of the search for the track
    tried,              \* per worker: candidates of video_ids[:3] already tried
    exc,                \* per worker: str(e) of the exception being handled
    stop_seen,          \* per worker: stop_download was called during its current track
    stop_requested,     \* stop_download was called on a live run and no run was started since
    prior,              \* per worker: what the folder and the record held at its launch
    catalog,            \* the playlist's items as the catalog serves them
    files,              \* the files on disk, each a pair <<folder, file name>>
    download_path,      \* app.py:45  the folder downloads go to
    download_folder,    \* per worker: the destination folder it made (app.py:260)
    listing,            \* one get_playlist_tracks call: its locals and its requests
    san,                \* one sanitize_filename call, and a second on its result
    ext                 \* one extract_playlist_id call

\* the fields of the API object and the threads it started
app == <<is_downloading, download_progress, result, launched, pc, playlist_url,
         idx, successful_downloads, left, found, tried, exc, stop_seen, stop_requested, prior, catalog, files,
         download_path, download_folder>>

\* the calls of the helper functions taken on their own
helpers == <<listing, san, ext>>

vars == <<is_downloading, download_progress, result, launched, pc, playlist_url,
          idx, successful_downloads, left, found, tried, exc, stop_seen, stop_requested, prior, catalog, files,
          download_path, download_folder,
          listing, san, ext>>

Workers == 1..MaxRuns

\* a missing dict key is the empty sequence, a present one a 1-element sequence
Progress(cur, tot, st) ==
    [current |-> cur, total |-> tot, status |-> st,
     current_track |-> <<>>, error |-> <<>>, successful |-> <<>>]

\* app.py:42
IdleProgress == Progress(0, 0, "idle")

\* the reset of a run writing status "idle" instead of "starting"
ResetToIdle == Progress(0, 0, "idle")

\* app.py:247
StartingProgress == Progress(0, 0, "starting")

NoPrior == [full |-> FALSE, reported |-> <<>>]

\* app.py:45  str(Path.home() / "Downloads" / "Spotify_Downloads")
DefaultPath == "~/Downloads/Spotify_Downloads"

\* a folder the user picks in the folder dialog
ChosenPath == "/media/music"

Paths == {DefaultPath, ChosenPath}

\* a worker that has not got to app.py:260
NoFolder == ""

\* app.py:31-47  the object as __init__ leaves it, no thread started
Constructed ==
    /\ is_downloading = FALSE
    /\ download_progress = IdleProgress
    /\ result = "none"
    /\ launched = 0
    /\ pc = [w \in Workers |-> "none"]
    /\ playlist_url = [w \in Workers |-> <<>>]
    /\ idx = [w \in Workers |-> 0]
    /\ successful_downloads = [w \in Workers |-> 0]
    /\ left = [w \in Workers |-> 0]
    /\ found = [w \in Workers |-> 0]
    /\ tried = [w \in Workers |-> 0]
    /\ exc = [w \in Workers |-> <<>>]
    /\ stop_seen = [w \in Workers |-> FALSE]
    /\ stop_requested = FALSE
    /\ prior = [w \in Workers |-> NoPrior]
    /\ files = {}
    /\ download_path = DefaultPath
    /\ download_folder = [w \in Workers |-> NoFolder]

\* no get_playlist_tracks call under way
NoListing == [at |-> "none", n |-> 0, offset |-> 0, tracks |-> <<>>,
              requests |-> <<>>, returned |-> <<>>]

\* no sanitize_filename call under way
NoSanitize == [at |-> "none", filename |-> <<>>, once |-> <<>>, twice |-> <<>>]

\* no extract_playlist_id call under way
NoExtract == [at |-> "none", url |-> <<>>, id |-> <<>>]

Init ==
    /\ Constructed
    /\ catalog \in Playlists
    /\ listing = NoListing
    /\ san = NoSanitize
    /\ ext = NoExtract

Live(w) == pc[w] \notin {"none", "done"}

\* the items download_track can fetch: 'track' present and of type 'track'
Playable == {k \in 1..Len(catalog) : catalog[k].type = "track"}

\* the launch of a worker, as the claims about a repeated run need it: full,
\* every playable item's file is already in the folder; reported, the success
\* count of the run that completed before it (<<>>: none, or one still runs)
PriorAtLaunch ==
    [full |-> \A k \in Playable : <<download_path, final_file(catalog[k])>> \in files,
     reported |-> IF download_progress.status = "completed"
                     /\ \A w \in Workers : ~Live(w)
                  THEN download_progress.successful ELSE <<>>]

\* the track at hand of worker w: tracks[i] with current = i + 1 = idx[w]
Item(w) == catalog[idx[w]]

\* pcs of a worker whose download_track call for the track at hand has begun
\* (app.py:280) and that has not yet read the flag for the next track (app.py:273)
InTrack == {"dl_exists", "dl_search", "dl_try", "check"}

Goto(w, p) == pc' = [pc EXCEPT ![w] = p]

\* the thread returns: its locals die with it
Exit(w) ==
    /\ pc' = [pc EXCEPT ![w] = "done"]
    /\ playlist_url' = [playlist_url EXCEPT ![w] = <<>>]
    /\ idx' = [idx EXCEPT ![w] = 0]
    /\ successful_downloads' = [successful_downloads EXCEPT ![w] = 0]
    /\ left' = [left EXCEPT ![w] = 0]
    /\ found' = [found EXCEPT ![w] = 0]
    /\ tried' = [tried EXCEPT ![w] = 0]
    /\ exc' = [exc EXCEPT ![w] = <<>>]
    /\ stop_seen' = [stop_seen EXCEPT ![w] = FALSE]
    /\ stop_requested' = (stop_requested /\ \E v \in Workers \ {w} : Live(v))
    /\ prior' = [prior EXCEPT ![w] = NoPrior]
    /\ download_folder' = [download_folder EXCEPT ![w] = NoFolder]

locals == <<download_folder, playlist_url, idx, successful_downloads, left, found, tried, exc, stop_seen, stop_requested, prior>>

\* ------------------------------------------------------- foreground calls
\* app.py:293  if not self.is_downloading
StartAllowed == ~is_downloading

\* app.py:242, 293-297
start_download(url) ==
    /\ IF StartAllowed
       THEN /\ launched < MaxRuns
            /\ launched' = launched + 1
            /\ pc' = [pc EXCEPT ![launched + 1] = "set_flag"]
            /\ playlist_url' = [playlist_url EXCEPT ![launched + 1] = url]
            /\ prior' = [prior EXCEPT ![launched + 1] = PriorAtLaunch]
            /\ result' = "Download started"
            /\ UNCHANGED <<is_downloading, download_progress, idx,
                           successful_downloads, left, found, tried, exc, stop_seen, catalog, download_path, download_folder, files>>
            /\ stop_requested' = FALSE
       ELSE /\ result' = "Download already in progress"
            /\ UNCHANGED <<is_downloading, download_progress, launched, pc, locals,
                           catalog, download_path, files>>
    /\ UNCHANGED helpers

\* stop_download writing the 'cancelled' status itself
StopWritesStatus ==
    /\ is_downloading' = FALSE
    /\ download_progress' = [download_progress EXCEPT !.status = "cancelled"]
    /\ stop_seen' = [w \in Workers |->
            stop_seen[w] \/ (pc[w] \in InTrack /\ idx[w] >= 1 /\ idx[w] < Len(catalog))]
    /\ stop_requested' = (stop_requested \/ \E w \in Workers : Live(w))
    /\ UNCHANGED <<result, launched, pc, playlist_url, idx, successful_downloads, left,
                   found, tried, exc, prior, catalog, download_path, download_folder, files>>
    /\ UNCHANGED helpers

\* app.py:299-302
stop_download ==
    /\ is_downloading' = FALSE
    /\ stop_seen' = [w \in Workers |->
            stop_seen[w] \/ (pc[w] \in InTrack /\ idx[w] >= 1 /\ idx[w] < Len(catalog))]
    /\ stop_requested' = (stop_requested \/ \E w \in Workers : Live(w))
    /\ UNCHANGED <<download_progress, result, launched, pc, playlist_url, idx,
                   successful_downloads, left, found, tried, exc, prior, catalog, download_path, download_folder, files>>
    /\ UNCHANGED helpers

\* ------------------------------------------------------- download_worker
\* app.py:246
SetFlag(w) ==
    /\ pc[w] = "set_flag"
    /\ is_downloading' = TRUE
    /\ Goto(w, "reset")
    /\ UNCHANGED <<download_progress, result, launched, locals, catalog, download_path, files>>
    /\ UNCHANGED helpers

\* app.py:247, 250-251
Reset(w) ==
    /\ pc[w] = "reset"
    /\ download_progress' = StartingProgress
    /\ Goto(w, IF extract_playlist_id(playlist_url[w]) = <<>>
               THEN "err_status" ELSE "playlist")
    /\ UNCHANGED <<is_downloading, result, launched, locals, catalog, download_path, files>>
    /\ UNCHANGED helpers

\* app.py:252
ErrStatus(w) ==
    /\ pc[w] = "err_status"
    /\ download_progress' = [download_progress EXCEPT !.status = "error"]
    /\ Goto(w, "err_msg")
    /\ UNCHANGED <<is_downloading, result, launched, locals, catalog, download_path, files>>
    /\ UNCHANGED helpers

\* app.py:253-254
ErrMsg(w) ==
    /\ pc[w] = "err_msg"
    /\ download_progress' =
           [download_progress EXCEPT !.error = <<"Invalid playlist URL">>]
    /\ Exit(w)
    /\ UNCHANGED <<is_downloading, result, launched, catalog, download_path, files>>
    /\ UNCHANGED helpers

\* an external call raised: control passes to the except clause at app.py:287
Raise(w, message) ==
    /\ exc' = [exc EXCEPT ![w] = <<message>>]
    /\ Goto(w, "exc_status")

\* app.py:256-261  sp.playlist(), the folder name and os.makedirs
FetchPlaylist(w) ==
    /\ pc[w] = "playlist"
    /\ \/ /\ Goto(w, "tracks")
          /\ download_folder' = [download_folder EXCEPT ![w] = download_path]
          /\ UNCHANGED exc
       \/ /\ Raise(w, "CatalogError")
          /\ UNCHANGED download_folder
    /\ UNCHANGED <<is_downloading, download_progress, result, launched, playlist_url,
                   idx, successful_downloads, left, found, tried, stop_seen, stop_requested, prior, catalog, download_path, files>>
    /\ UNCHANGED helpers

\* app.py:264-265  get_playlist_tracks(): the whole listing, or a page request raises
GetTracks(w) ==
    /\ pc[w] = "tracks"
    /\ \/ /\ Goto(w, "total")
          /\ UNCHANGED exc
       \/ Raise(w, "ListingError")
    /\ UNCHANGED <<is_downloading, download_progress, result, launched, playlist_url,
                   idx, successful_downloads, left, found, tried, stop_seen, stop_requested, prior, catalog, download_path, download_folder, files>>
    /\ UNCHANGED helpers

\* app.py:267
SetTotal(w) ==
    /\ pc[w] = "total"
    /\ download_progress' = [download_progress EXCEPT !.total = Len(catalog)]
    /\ Goto(w, "downloading")
    /\ UNCHANGED <<is_downloading, result, launched, locals, catalog, download_path, files>>
    /\ UNCHANGED helpers

\* app.py:268-270
SetDownloading(w) ==
    /\ pc[w] = "downloading"
    /\ download_progress' = [download_progress EXCEPT !.status = "downloading"]
    /\ successful_downloads' = [successful_downloads EXCEPT ![w] = 0]
    /\ Goto(w, "check")
    /\ UNCHANGED <<is_downloading, result, launched, playlist_url, idx, left, found, tried, exc,
                   stop_seen, stop_requested, prior, catalog, download_path, download_folder, files>>
    /\ UNCHANGED helpers

\* app.py:272-273  the loop head and the read of the flag
Check(w) ==
    /\ pc[w] = "check"
    /\ Goto(w, IF idx[w] = Len(catalog) THEN "completed"
               ELSE IF ~is_downloading THEN "cancelled" ELSE "current")
    /\ UNCHANGED <<is_downloading, download_progress, result, launched, locals,
                   catalog, download_path, files>>
    /\ UNCHANGED helpers

\* app.py:274-275
Cancelled(w) ==
    /\ pc[w] = "cancelled"
    /\ download_progress' = [download_progress EXCEPT !.status = "cancelled"]
    /\ Exit(w)
    /\ UNCHANGED <<is_downloading, result, launched, catalog, download_path, files>>
    /\ UNCHANGED helpers

\* app.py:277
SetCurrent(w) ==
    /\ pc[w] = "current"
    /\ download_progress' = [download_progress EXCEPT !.current = idx[w] + 1]
    /\ idx' = [idx EXCEPT ![w] = idx[w] + 1]
    /\ Goto(w, "label")
    /\ UNCHANGED <<is_downloading, result, launched, playlist_url,
                   successful_downloads, left, found, tried, exc, stop_seen, stop_requested, prior, catalog, download_path, download_folder, files>>
    /\ UNCHANGED helpers

\* app.py:278  track_info['track']['artists'] raises TypeError when 'track' is None
SetLabel(w) ==
    /\ pc[w] = "label"
    /\ IF Item(w).type = "null"
       THEN /\ Raise(w, "TypeError")
            /\ UNCHANGED download_progress
       ELSE /\ download_progress' =
                   [download_progress EXCEPT !.current_track = <<Label(Item(w))>>]
            /\ Goto(w, "dl_exists")
            /\ UNCHANGED exc
    /\ UNCHANGED <<is_downloading, result, launched, playlist_url, idx,
                   successful_downloads, left, found, tried, stop_seen, stop_requested, prior, catalog, download_path, download_folder, files>>
    /\ UNCHANGED helpers

\* app.py:280-281  download_track returned: count a success, go to the loop head
Returned(w, value) ==
    /\ successful_downloads' =
           [successful_downloads EXCEPT ![w] = IF value THEN @ + 1 ELSE @]
    /\ left' = [left EXCEPT ![w] = 0]
    /\ found' = [found EXCEPT ![w] = 0]
    /\ tried' = [tried EXCEPT ![w] = 0]
    /\ Goto(w, "check")

\* ------------------------------------------------------- download_track
\* the existence test answering "absent" for every file
NeverExists(w) == FALSE

\* the existence test made on the name before sanitize_filename
ExistsUnsanitized(w) == <<download_folder[w], Label(Item(w)) \o <<".", "m", "p", "3">>>> \in files

\* app.py:178  os.path.exists(final_file)
FileExists(w) == <<download_folder[w], final_file(Item(w))>> \in files

\* app.py:167-180  the playable test and the skip of an existing file
DlExists(w) ==
    /\ pc[w] = "dl_exists"
    /\ IF Item(w).type # "track" THEN Returned(w, FALSE)
       ELSE IF FileExists(w) THEN Returned(w, TRUE)
       ELSE /\ Goto(w, "dl_search")
            /\ UNCHANGED <<successful_downloads, left, found, tried>>
    /\ UNCHANGED <<is_downloading, download_progress, result, launched, playlist_url,
                   idx, exc, stop_seen, stop_requested, prior, catalog, download_path, download_folder, files>>
    /\ UNCHANGED helpers

\* the loop running over every video id of the search page
EveryCandidate == MaxCandidates

\* app.py:196  video_ids[:3]
MaxAttempts == 3

Min(a, b) == IF a < b THEN a ELSE b

\* app.py:183-193  the search request raises, or yields n video ids
DlSearch(w) ==
    /\ pc[w] = "dl_search"
    /\ \/ Returned(w, FALSE)
       \/ \E n \in 0..MaxCandidates :
            IF n = 0 THEN Returned(w, FALSE)
            ELSE /\ left' = [left EXCEPT ![w] = Min(MaxAttempts, n)]
                 /\ found' = [found EXCEPT ![w] = n]
                 /\ UNCHANGED tried
                 /\ Goto(w, "dl_try")
                 /\ UNCHANGED successful_downloads
    /\ UNCHANGED <<is_downloading, download_progress, result, launched, playlist_url,
                   idx, exc, stop_seen, stop_requested, prior, catalog, download_path, download_folder, files>>
    /\ UNCHANGED helpers

\* the candidate loop going back to the search when its last candidate failed
SearchAgain(w) ==
    /\ pc[w] = "dl_try"
    /\ \/ /\ IF left[w] = 1
             THEN /\ left' = [left EXCEPT ![w] = 0]
                  /\ found' = [found EXCEPT ![w] = 0]
                  /\ tried' = [tried EXCEPT ![w] = 0]
                  /\ Goto(w, "dl_search")
                  /\ UNCHANGED successful_downloads
             ELSE /\ left' = [left EXCEPT ![w] = @ - 1]
                  /\ tried' = [tried EXCEPT ![w] = @ + 1]
                  /\ UNCHANGED found
                  /\ UNCHANGED <<pc, successful_downloads>>
          /\ UNCHANGED files
       \/ /\ Returned(w, TRUE)
          /\ files' = files \cup {<<download_folder[w], final_file(Item(w))>>}
       \/ /\ Returned(w, TRUE)
          /\ UNCHANGED files
    /\ UNCHANGED <<is_downloading, download_progress, result, launched, playlist_url,
                   idx, exc, stop_seen, stop_requested, prior, catalog, download_path,
                   download_folder>>
    /\ UNCHANGED helpers

\* app.py:196-236  one candidate: ydl.download raises, returns having written
\* the file, or (ignoreerrors) returns without a file
DlTry(w) ==
    /\ pc[w] = "dl_try"
    /\ \/ /\ IF left[w] = 1 THEN Returned(w, FALSE)
             ELSE /\ left' = [left EXCEPT ![w] = @ - 1]
                  /\ tried' = [tried EXCEPT ![w] = @ + 1]
                  /\ UNCHANGED found
                  /\ UNCHANGED <<pc, successful_downloads>>
          /\ UNCHANGED files
       \/ /\ Returned(w, TRUE)
          /\ files' = files \cup {<<download_folder[w], final_file(Item(w))>>}
       \/ /\ Returned(w, TRUE)
          /\ UNCHANGED files
    /\ UNCHANGED <<is_downloading, download_progress, result, launched, playlist_url,
                   idx, exc, stop_seen, stop_requested, prior, catalog, download_path, download_folder>>
    /\ UNCHANGED helpers

\* ------------------------------------------------- download_worker, the end
\* the run ending at its status write, the success count never written
CompletedWithoutCount(w) ==
    /\ pc[w] = "completed"
    /\ download_progress' = [download_progress EXCEPT !.status = "completed"]
    /\ Goto(w, "flag_off")
    /\ UNCHANGED <<is_downloading, result, launched, locals, catalog, download_path, files>>
    /\ UNCHANGED helpers

\* app.py:283
Completed(w) ==
    /\ pc[w] = "completed"
    /\ download_progress' = [download_progress EXCEPT !.status = "completed"]
    /\ Goto(w, "successful")
    /\ UNCHANGED <<is_downloading, result, launched, locals, catalog, download_path, files>>
    /\ UNCHANGED helpers

\* app.py:284
Successful(w) ==
    /\ pc[w] = "successful"
    /\ download_progress' =
           [download_progress EXCEPT !.successful = <<successful_downloads[w]>>]
    /\ Goto(w, "flag_off")
    /\ UNCHANGED <<is_downloading, result, launched, locals, catalog, download_path, files>>
    /\ UNCHANGED helpers

\* app.py:285
FlagOff(w) ==
    /\ pc[w] = "flag_off"
    /\ is_downloading' = FALSE
    /\ Exit(w)
    /\ UNCHANGED <<download_progress, result, launched, catalog, download_path, files>>
    /\ UNCHANGED helpers

\* app.py:289
ExcStatus(w) ==
    /\ pc[w] = "exc_status"
    /\ download_progress' = [download_progress EXCEPT !.status = "error"]
    /\ Goto(w, "exc_msg")
    /\ UNCHANGED <<is_downloading, result, launched, locals, catalog, download_path, files>>
    /\ UNCHANGED helpers

\* app.py:290
ExcMsg(w) ==
    /\ pc[w] = "exc_msg"
    /\ download_progress' = [download_progress EXCEPT !.error = exc[w]]
    /\ Goto(w, "exc_flag")
    /\ UNCHANGED <<is_downloading, result, launched, locals, catalog, download_path, files>>
    /\ UNCHANGED helpers

\* app.py:291
ExcFlag(w) ==
    /\ pc[w] = "exc_flag"
    /\ is_downloading' = FALSE
    /\ Exit(w)
    /\ UNCHANGED <<download_progress, result, launched, catalog, download_path, files>>
    /\ UNCHANGED helpers

\* app.py:304-306  return self.download_progress: the record as it is now
get_download_progress ==
    /\ UNCHANGED app
    /\ UNCHANGED helpers

\* what a get_download_progress call made in this state hands to the poller
Snapshot == download_progress

\* app.py:139-141  return {"path": self.download_path}
get_download_path ==
    /\ UNCHANGED app
    /\ UNCHANGED helpers

\* app.py:130-137  the field is assigned before os.makedirs runs, so it holds
\* the new path whether the call returns success or "Invalid path"; makedirs
\* creates folders and touches no file
set_download_path(path) ==
    /\ download_path' = path
    /\ UNCHANGED <<is_downloading, download_progress, result, launched, pc, locals,
                   catalog, files>>
    /\ UNCHANGED helpers

Next ==
    \/ \E url \in Urls : start_download(url)
    \/ stop_download
    \/ get_download_progress
    \/ get_download_path
    \/ \E w \in Workers : SetFlag(w)
    \/ \E w \in Workers : Reset(w)
    \/ \E w \in Workers : ErrStatus(w)
    \/ \E w \in Workers : ErrMsg(w)
    \/ \E w \in Workers : FetchPlaylist(w)
    \/ \E w \in Workers : GetTracks(w)
    \/ \E w \in Workers : SetTotal(w)
    \/ \E w \in Workers : SetDownloading(w)
    \/ \E w \in Workers : Check(w)
    \/ \E w \in Workers : Cancelled(w)
    \/ \E w \in Workers : SetCurrent(w)
    \/ \E w \in Workers : SetLabel(w)
    \/ \E w \in Workers : DlExists(w)
    \/ \E w \in Workers : DlSearch(w)
    \/ \E w \in Workers : DlTry(w)
    \/ \E w \in Workers : Completed(w)
    \/ \E w \in Workers : Successful(w)
    \/ \E w \in Workers : FlagOff(w)
    \/ \E w \in Workers : ExcStatus(w)
    \/ \E w \in Workers : ExcMsg(w)
    \/ \E w \in Workers : ExcFlag(w)

\* the runs with the download folder left as constructed
Spec == Init /\ [][Next]_vars

\* ------------------------------------------------- every call of the bridge
NextApi ==
    \/ Next
    \/ \E path \in Paths : set_download_path(path)

InitApi ==
    /\ Init
    /\ Len(catalog) <= ApiTracks

SpecApi == InitApi /\ [][NextApi]_vars

\* ------------------------------------------------------- fair scheduling
\* app.py:244-291  the next statement of worker thread w, whichever it is
download_worker(w) ==
    \/ SetFlag(w) \/ Reset(w) \/ ErrStatus(w) \/ ErrMsg(w)
    \/ FetchPlaylist(w) \/ GetTracks(w) \/ SetTotal(w) \/ SetDownloading(w)
    \/ Check(w) \/ Cancelled(w) \/ SetCurrent(w) \/ SetLabel(w)
    \/ DlExists(w) \/ DlSearch(w) \/ DlTry(w)
    \/ Completed(w) \/ Successful(w) \/ FlagOff(w)
    \/ ExcStatus(w) \/ ExcMsg(w) \/ ExcFlag(w)

InitFair ==
    /\ Init
    /\ Len(catalog) <= FairTracks

\* a started thread keeps being scheduled, and the external call it waits in
\* returns or raises: its next step is taken; the foreground calls are free
Fairness == \A w \in Workers : WF_vars(download_worker(w))

SpecFair == InitFair /\ [][Next]_vars /\ Fairness

\* ------------------------------------------- sanitize_filename on its own
\* characters of file names: a letter of each case, a digit, the six allowed
\* marks, and three characters outside the allowed set
NameChars == {"a", "Z", "7", "-", "_", ".", "(", ")", " ", "/", "?", "#"}

\* app.py:143  the call is entered with any name over NameChars
InitSanitize ==
    /\ Constructed
    /\ catalog = <<>>
    /\ listing = NoListing
    /\ ext = NoExtract
    /\ \E n \in 0..MaxName : \E name \in [1..n -> NameChars] :
           san = [NoSanitize EXCEPT !.at = "call", !.filename = name]

\* app.py:143-146
Sanitize ==
    /\ san.at = "call"
    /\ san' = [san EXCEPT !.at = "once", !.once = sanitize_filename(san.filename)]
    /\ UNCHANGED <<app, listing, ext>>

\* app.py:143-146  the function applied to its own result
SanitizeAgain ==
    /\ san.at = "once"
    /\ san' = [san EXCEPT !.at = "twice", !.twice = sanitize_filename(san.once)]
    /\ UNCHANGED <<app, listing, ext>>

NextSanitize ==
    \/ Sanitize
    \/ SanitizeAgain

SpecSanitize == InitSanitize /\ [][NextSanitize]_vars

\* ----------------------------------------- extract_playlist_id on its own
\* what URLs are put together from: the word of both patterns, the two
\* separators, an alphanumeric and a character that ends an identifier
UrlSegments == {PlaylistWord, <<"/">>, <<":">>, <<"a">>, <<"?">>}

RECURSIVE Concat(_)
Concat(segments) ==
    IF segments = <<>> THEN <<>>
    ELSE Head(segments) \o Concat(Tail(segments))

\* app.py:91  the call is entered with any URL of at most MaxSegments segments
InitExtract ==
    /\ Constructed
    /\ catalog = <<>>
    /\ listing = NoListing
    /\ san = NoSanitize
    /\ \E n \in 0..MaxSegments : \E segments \in [1..n -> UrlSegments] :
           ext = [NoExtract EXCEPT !.at = "call", !.url = Concat(segments)]

\* app.py:91-102
Extract ==
    /\ ext.at = "call"
    /\ ext' = [ext EXCEPT !.at = "returned", !.id = extract_playlist_id(ext.url)]
    /\ UNCHANGED <<app, listing, san>>

NextExtract == Extract

SpecExtract == InitExtract /\ [][NextExtract]_vars

\* ------------------------------------------------ download_track on its own
\* app.py:164-166, 280  the call is entered for item k of a playlist, whatever
\* the destination folder holds; a null item never gets here (app.py:278)
InitTrack ==
    /\ is_downloading = TRUE
    /\ result = "Download started"
    /\ launched = 1
    /\ catalog \in Playlists
    /\ files \in SUBSET {<<path, final_file(item)>> : path \in Paths, item \in {TrackA, TrackB}}
    /\ download_path = DefaultPath
    /\ download_folder = [w \in Workers |-> IF w = 1 THEN DefaultPath ELSE NoFolder]
    /\ \E k \in 1..Len(catalog) :
          /\ catalog[k].type # "null"
          /\ idx = [w \in Workers |-> IF w = 1 THEN k ELSE 0]
          /\ download_progress =
                [Progress(k, Len(catalog), "downloading")
                    EXCEPT !.current_track = <<Label(catalog[k])>>]
    /\ pc = [w \in Workers |-> IF w = 1 THEN "dl_exists" ELSE "none"]
    /\ playlist_url = [w \in Workers |-> IF w = 1 THEN ValidUrl ELSE <<>>]
    /\ successful_downloads = [w \in Workers |-> 0]
    /\ left = [w \in Workers |-> 0]
    /\ found = [w \in Workers |-> 0]
    /\ tried = [w \in Workers |-> 0]
    /\ exc = [w \in Workers |-> <<>>]
    /\ stop_seen = [w \in Workers |-> FALSE]
    /\ stop_requested = FALSE
    /\ prior = [w \in Workers |-> IF w = 1 THEN PriorAtLaunch ELSE NoPrior]
    /\ listing = NoListing
    /\ san = NoSanitize
    /\ ext = NoExtract

NextTrack ==
    \/ DlExists(1)
    \/ DlSearch(1)
    \/ DlTry(1)

SpecTrack == InitTrack /\ [][NextTrack]_vars

\* ------------------------------------------- get_playlist_tracks on its own
\* app.py:152
limit == 100

\* app.py:155  sp.playlist_tracks(playlist_id, limit=lim, offset=off) on a
\* playlist whose items are 1..n in catalog order: items off+1 .. off+lim
PlaylistTracks(n, off, lim) ==
    [k \in 1..Min(lim, IF n > off THEN n - off ELSE 0) |-> off + k]

\* the loop leaving at a page that is not longer than the limit
StopsAtFullPage(items) == Len(items) <= limit

\* app.py:157  if len(response['items']) < limit: break
LastPage(items) == Len(items) < limit

\* app.py:148-153  the call is entered on a playlist of n items
InitPages ==
    /\ Constructed
    /\ catalog = <<>>
    /\ \E n \in 0..MaxItems :
           listing = [NoListing EXCEPT !.at = "request", !.n = n]
    /\ san = NoSanitize
    /\ ext = NoExtract

\* app.py:154-162  one page is served: extend, then break and return, or advance
RequestPage ==
    /\ listing.at = "request"
    /\ LET items == PlaylistTracks(listing.n, listing.offset, limit)
           all == listing.tracks \o items
       IN  listing' =
             [listing EXCEPT
                !.requests = Append(@, [offset |-> listing.offset, limit |-> limit,
                                        size |-> Len(items)]),
                !.tracks = all,
                !.offset = IF LastPage(items) THEN @ ELSE @ + limit,
                !.at = IF LastPage(items) THEN "returned" ELSE "request",
                !.returned = IF LastPage(items) THEN <<all>> ELSE <<>>]
    /\ UNCHANGED <<app, san, ext>>

\* app.py:155  the page request raises: nothing catches it in the function,
\* the list built so far dies with the frame
PageFails ==
    /\ listing.at = "request"
    /\ listing' =
          [listing EXCEPT
             !.requests = Append(@, [offset |-> listing.offset, limit |-> limit,
                                     size |-> -1]),
             !.tracks = <<>>,
             !.at = "raised"]
    /\ UNCHANGED <<app, san, ext>>

NextPages ==
    \/ RequestPage
    \/ PageFails

SpecPages == InitPages /\ [][NextPages]_vars

\* ------------------------------------------------------------------ claims
Terminal == {"completed", "cancelled", "error"}
ExcPcs == {"exc_status", "exc_msg", "exc_flag"}
DownloadPcs == {"dl_search", "dl_try"}

\* C1: at most one download worker is live at any moment.
C1_AtMostOneWorker == Cardinality({w \in Workers : Live(w)}) <= 1

\* C2: a start_download call made while status is 'downloading' returns
\* 'Download already in progress', leaves download_progress unchanged and
\* launches no worker.
C2_RejectedWhileDownloading ==
    [][\A url \in Urls :
          (download_progress.status = "downloading" /\ start_download(url))
          => /\ result' = "Download already in progress"
             /\ launched' = launched
             /\ pc' = pc
             /\ download_progress' = download_progress]_vars

\* C3: a start_download call made while no worker is executing (none launched
\* yet, or every launched one has returned) returns success and launches a worker.
C3_AcceptedWhenNoRunActive ==
    [][\A url \in Urls :
          ((\A w \in Workers : ~Live(w)) /\ start_download(url))
          => /\ result' = "Download started"
             /\ launched' = launched + 1]_vars

\* C4: after stop_download was called while worker w was on track k (k < n),
\* w begins no later track and goes nowhere but to 'cancelled', which it
\* writes with current == k.
C4_StopEndsRunAtTrack ==
    \A w \in Workers :
        stop_seen[w] =>
            /\ pc[w] \in InTrack \cup {"cancelled"}
            /\ pc[w] = "cancelled" => download_progress.current = idx[w]

\* C5: every change of status is an edge of idle -> starting -> downloading ->
\* {completed, cancelled, error}, starting -> error, or the reset of a later
\* run out of a terminal status.
C5_StatusStateMachine ==
    [][download_progress'.status # download_progress.status =>
          <<download_progress.status, download_progress'.status>> \in
              ({<<"idle", "starting">>, <<"starting", "downloading">>,
                <<"starting", "error">>}
               \cup ({"downloading"} \X Terminal)
               \cup (Terminal \X {"starting"}))]_vars

\* C6 as stated: the status becomes 'starting' only out of 'idle', so a later
\* run passes through 'idle' again.
C6_ResetPassesThroughIdle ==
    [][download_progress'.status = "starting" =>
          download_progress.status \in {"idle", "starting"}]_vars

\* C6 amended: the status is 'idle' exactly until the first worker executes
\* its reset; every reset writes 'starting' and no run returns the status to 'idle'.
C6_IdleOnlyBeforeFirstReset ==
    (download_progress.status = "idle")
        <=> (\A w \in Workers : pc[w] \in {"none", "set_flag", "reset"})

\* a second run, started after the first has ended, has just executed its reset
C6_SecondRunReset ==
    /\ pc[1] = "done"
    /\ pc[2] = "playlist"
    /\ download_progress = StartingProgress

\* C7: the error write of a run with an unparsable URL finds the status at
\* 'starting' and the run ends, no track begun, with the record at status
\* 'error', error 'Invalid playlist URL', current 0 and total 0, and with no
\* track label and no success count in it.
C7_InvalidUrlRun ==
    [][\A w \in Workers :
          /\ ErrStatus(w) => download_progress.status = "starting"
          /\ ErrMsg(w) =>
                /\ idx[w] = 0
                /\ download_progress' =
                      [Progress(0, 0, "error") EXCEPT !.error = <<"Invalid playlist URL">>]]_vars

\* C8: no exception reaches the except clause once the per-track loop has
\* begun, so a run that reached 'downloading' never ends in 'error'.
C8_TrackFailuresNeverAbort ==
    \A w \in Workers : pc[w] \in ExcPcs => idx[w] = 0

\* C9: the write of the success count leaves the record at status 'completed'
\* with current == total == number of playlist items and successful == the
\* worker's count of download_track calls that returned true.
C9_CompletedRecord ==
    [][\A w \in Workers :
          Successful(w) =>
              /\ download_progress'.status = "completed"
              /\ download_progress'.current = Len(catalog)
              /\ download_progress'.total = Len(catalog)
              /\ download_progress'.successful = <<successful_downloads[w]>>]_vars

\* C10 as stated: a run launched after a completed run of the same playlist
\* makes no search and no download attempt, and counts the same successes.
C10_SecondRunNoAttempts ==
    \A w \in Workers :
        prior[w].reported # <<>> =>
            /\ pc[w] \notin DownloadPcs
            /\ pc[w] = "successful" => <<successful_downloads[w]>> = prior[w].reported

\* C10 amended: a run launched when every playable item's file is already in
\* the folder makes no search and no download attempt and counts every
\* playable item; its count equals the earlier run's when that run counted them all.
C10_ResumeOverFullFolder ==
    \A w \in Workers :
        prior[w].full =>
            /\ pc[w] \notin DownloadPcs
            /\ pc[w] \in {"successful", "flag_off"} =>
                  /\ successful_downloads[w] = Cardinality(Playable)
                  /\ prior[w].reported = <<Cardinality(Playable)>> =>
                        <<successful_downloads[w]>> = prior[w].reported

\* a run over a folder the first run filled has counted both tracks again
C10_ResumedRunCounted ==
    /\ prior[2].full
    /\ prior[2].reported = <<2>>
    /\ pc[2] = "flag_off"
    /\ download_progress.status = "completed"
    /\ download_progress.successful = <<2>>
    /\ Cardinality(files) = 2

\* C11: get_playlist_tracks requests pages of 100 at offsets 0, 100, 200, ...,
\* stops after the first page shorter than 100, returns the n items in catalog
\* order without duplicate or omission (250 items: pages of 100, 100, 50), and
\* every call still running has a next request and an offset of at most n, so
\* it ends after n \div 100 + 1 pages, for n = 0 and multiples of 100 too
C11_Pagination ==
    LET r == listing.requests
        served == {i \in 1..Len(r) : r[i].size >= 0}
    IN  /\ \A i \in 1..Len(r) : r[i].offset = 100 * (i - 1) /\ r[i].limit = 100
        /\ \A i \in served : i < Len(r) => r[i].size = 100
        /\ listing.at = "request" =>
              /\ listing.offset = 100 * Len(r)
              /\ listing.offset <= listing.n
              /\ ENABLED RequestPage
        /\ listing.at = "returned" =>
              /\ listing.returned = <<[k \in 1..listing.n |-> k]>>
              /\ Len(r) = (listing.n \div 100) + 1
              /\ r[Len(r)].size = listing.n % 100
              /\ listing.n = 250 =>
                    [i \in 1..Len(r) |-> r[i].size] = <<100, 100, 50>>

\* a playlist of 200 items has been listed: pages of 100, 100 and 0
C11_MultipleOfLimitListed ==
    /\ listing.at = "returned"
    /\ listing.n = 200
    /\ Len(listing.requests) = 3
    /\ Len(listing.returned[1]) = 200

\* C12: when a page request of the listing fails, the run ends in status
\* 'error' carrying the failure message, with no download_track call made and
\* total still 0: the record reads {current 0, total 0, status 'error', error}
C12_ListingFailureRun ==
    [][\A w \in Workers :
          (ExcMsg(w) /\ exc[w] = <<"ListingError">>) =>
              /\ idx[w] = 0
              /\ download_progress' =
                     [Progress(0, 0, "error") EXCEPT !.error = <<"ListingError">>]]_vars

\* C13: a search that fails or finds nothing makes download_track return false
\* with no download attempt; otherwise candidate tried + 1 is attempted next,
\* never beyond min(3, found); a successful attempt returns true at once, a
\* failed one moves to the next candidate, and false is returned only when the
\* last of the min(3, found) candidates has failed; no step raises to the caller
C13_CandidateFallback ==
    [][\A w \in Workers :
          /\ DlSearch(w) =>
                /\ tried[w] = 0
                /\ \/ /\ pc'[w] = "check"
                      /\ successful_downloads'[w] = successful_downloads[w]
                   \/ /\ pc'[w] = "dl_try"
                      /\ found'[w] >= 1
                      /\ tried'[w] = 0
          /\ DlTry(w) =>
                /\ found[w] >= 1
                /\ tried[w] + 1 <= Min(3, found[w])
                /\ \/ /\ pc'[w] = "check"
                      /\ successful_downloads'[w] = successful_downloads[w] + 1
                   \/ /\ pc'[w] = "dl_try"
                      /\ tried'[w] = tried[w] + 1
                      /\ tried'[w] < Min(3, found[w])
                      /\ successful_downloads'[w] = successful_downloads[w]
                   \/ /\ pc'[w] = "check"
                      /\ tried[w] + 1 = Min(3, found[w])
                      /\ successful_downloads'[w] = successful_downloads[w]
          /\ (DlSearch(w) \/ DlTry(w)) => exc'[w] = <<>> /\ pc'[w] \notin ExcPcs]_vars

\* two candidates of four have failed and the third, the last allowed, is next
C13_ThirdCandidateOfFour ==
    /\ pc[1] = "dl_try"
    /\ found[1] = 4
    /\ tried[1] = 2

\* C14: when '<sanitized "artist - title">.mp3' is already in the destination
\* folder, download_track returns true from its existence test: no search, no
\* download attempt, and the folder keeps exactly the files it had
C14_ExistingFileSkipped ==
    [][\A w \in Workers :
          ( /\ pc[w] = "dl_exists"
            /\ Item(w).type = "track"
            /\ <<download_folder[w], sanitize_filename(Label(Item(w))) \o <<".", "m", "p", "3">>>> \in files
            /\ DlExists(w) ) =>
              /\ pc'[w] = "check"
              /\ successful_downloads'[w] = successful_downloads[w] + 1
              /\ found'[w] = 0 /\ tried'[w] = 0 /\ left'[w] = 0
              /\ files' = files]_vars

\* the call returned true for a track whose file was in the folder beforehand
C14_SkippedSanitizedName ==
    /\ pc[1] = "check"
    /\ Item(1) = TrackA
    /\ successful_downloads[1] = 1
    /\ prior[1].full

\* C15: for an item whose track is null or not of type 'track', the worker's
\* loop gets to the download_track call, and the call returns false from its
\* first test: no search, no attempt, no file, the success counter unchanged
C15_NonPlayableRejected ==
    [][\A w \in Workers :
          /\ (pc[w] = "label" /\ Item(w).type # "track" /\ SetLabel(w)) =>
                pc'[w] = "dl_exists"
          /\ (pc[w] = "dl_exists" /\ Item(w).type # "track" /\ DlExists(w)) =>
                /\ pc'[w] = "check"
                /\ successful_downloads'[w] = successful_downloads[w]
                /\ found'[w] = 0 /\ tried'[w] = 0
                /\ files' = files]_vars

\* C16: the output of sanitize_filename holds only letters, digits and the
\* characters "-_.() "; it is the input's allowed characters, all of them and
\* in the input's order; it is empty when no input character is allowed; and
\* sanitizing the output again gives the output
C16_Sanitizer ==
    LET allowed == Lower \cup Upper \cup Digits \cup {"-", "_", ".", "(", ")", " "}
        name == san.filename
        out == san.once
        kept == {i \in 1..Len(name) : name[i] \in allowed}
    IN  /\ san.at \in {"once", "twice"} =>
              /\ \A j \in 1..Len(out) : out[j] \in allowed
              /\ Len(out) = Cardinality(kept)
              /\ \A i \in kept : out[Cardinality({j \in kept : j <= i})] = name[i]
              /\ (kept = {}) => out = <<>>
        /\ san.at = "twice" => san.twice = out

\* a three-character name lost two characters and sanitizing again kept the rest
C16_TwoDroppedOneKept ==
    /\ san.at = "twice"
    /\ Len(san.filename) = 3
    /\ Len(san.once) = 1
    /\ san.filename[2] = san.once[1]

\* C17: the result is the maximal alphanumeric run after the separator of the
\* leftmost 'playlist/<alnum>' match when there is one, wherever a
\* 'playlist:<alnum>' match lies; else that of the leftmost 'playlist:<alnum>'
\* match; it is none (the empty sequence) iff neither pattern matches
C17_FirstPatternWins ==
    LET url == ext.url
        id == ext.id
        word == Len(PlaylistWord)
        hits(sep) == {p \in 1..Len(url) : MatchesAt(url, sep, p)}
        first(sep) == CHOOSE p \in hits(sep) : \A q \in hits(sep) : p <= q
        RunAt(p) ==
            /\ Len(id) >= 1
            /\ p + word + Len(id) <= Len(url)
            /\ SubSeq(url, p + word + 1, p + word + Len(id)) = id
            /\ \A j \in 1..Len(id) : id[j] \in Alnum
            /\ \/ p + word + Len(id) = Len(url)
               \/ url[p + word + Len(id) + 1] \notin Alnum
    IN  ext.at = "returned" =>
          /\ hits("/") # {} => RunAt(first("/"))
          /\ (hits("/") = {} /\ hits(":") # {}) => RunAt(first(":"))
          /\ (id = <<>>) <=> (hits("/") = {} /\ hits(":") = {})

\* a URL with a 'playlist:' match ahead of a 'playlist/' match gave the
\* identifier that follows 'playlist/'
C17_BothShapesSlashWins ==
    /\ ext.at = "returned"
    /\ MatchesAt(ext.url, ":", 1)
    /\ \E p \in 2..Len(ext.url) : MatchesAt(ext.url, "/", p)
    /\ ext.id = <<"a">>

\* C18: once stop_download has been called on a started run, at whatever
\* point of it, and no further run was started, the worker begins no further
\* track: the next time it reads the flag with a track left (app.py:273) it
\* takes the 'cancelled' exit
C18_StopNeverLost ==
    [][\A w \in Workers :
          ( /\ stop_requested
            /\ pc[w] = "check"
            /\ idx[w] < Len(catalog)
            /\ Check(w) ) => pc'[w] = "cancelled"]_vars

\* C19: every snapshot get_download_progress returns shows status 'error' only
\* with an error message and status 'completed' only with the success count
C19_SnapshotConsistent ==
    /\ Snapshot.status = "error" => Snapshot.error # <<>>
    /\ Snapshot.status = "completed" => Snapshot.successful # <<>>

\* C19 as it holds: a snapshot shows a terminal status without its field only
\* while a worker stands between its status write and the write of that
\* field (app.py:252/253, 283/284, 289/290)
C19_MissingFieldOnlyBetweenWrites ==
    /\ (Snapshot.status = "error" /\ Snapshot.error = <<>>) =>
          \E w \in Workers : pc[w] \in {"err_msg", "exc_msg"}
    /\ (Snapshot.status = "completed" /\ Snapshot.successful = <<>>) =>
          \E w \in Workers : pc[w] = "successful"

\* a poll between app.py:283 and app.py:284 of a single run
C19_CompletedWithoutCount ==
    /\ Snapshot.status = "completed"
    /\ Snapshot.successful = <<>>
    /\ pc[1] = "successful"
    /\ pc[2] = "none"

\* C20: download_progress changes only in a step of a started worker thread;
\* start_download (accepted or rejected), stop_download, get_download_progress,
\* set_download_path and get_download_path leave it as it is, and of the
\* object's fields, the threads and the files stop_download changes nothing
\* but is_downloading
C20_WorkerSoleWriter ==
    [][/\ download_progress' # download_progress =>
             \E w \in Workers : Live(w) /\ pc'[w] # pc[w]
       /\ \A url \in Urls :
             start_download(url) => download_progress' = download_progress
       /\ stop_download =>
             /\ download_progress' = download_progress
             /\ UNCHANGED <<launched, pc, playlist_url, idx, successful_downloads,
                            left, found, tried, exc, catalog, files, download_path,
                            download_folder, result>>
       /\ get_download_progress => download_progress' = download_progress
       /\ get_download_path => download_progress' = download_progress
       /\ \A path \in Paths :
             set_download_path(path) => download_progress' = download_progress]_vars

\* in the middle of a run the folder was changed and the run was stopped: the
\* record still shows what the worker wrote
C20_ForegroundCallsMidRun ==
    /\ download_progress.status = "downloading"
    /\ download_progress.current = 1
    /\ download_path = ChosenPath
    /\ stop_requested
    /\ ~is_downloading
    /\ result = "Download already in progress"

\* C21: after every step the record has 0 <= current <= total, and current
\* and total are 0 while the status is 'starting'; current goes down only in
\* the reset that begins a run (app.py:247)
C21_RecordInvariants ==
    [][/\ 0 <= download_progress'.current
       /\ download_progress'.current <= download_progress'.total
       /\ download_progress'.status = "starting" =>
             download_progress'.current = 0 /\ download_progress'.total = 0
       /\ download_progress'.current < download_progress.current =>
             \E w \in Workers : Reset(w)]_vars

\* pcs of a worker that has written its terminal status
AfterTerminal == {"err_msg", "successful", "flag_off", "exc_msg", "exc_flag", "done"}

\* pcs of the statements that write a terminal status (app.py:252, 274, 283, 289)
TerminalWrites == {"err_status", "cancelled", "completed", "exc_status"}

\* C22: every started worker gets to its end, and once it has written its
\* terminal status it writes neither download_progress nor is_downloading
C22_TerminalStatusIsLastWrite ==
    /\ \A w \in Workers : (pc[w] = "set_flag") ~> (pc[w] = "done")
    /\ [][\A w \in Workers :
            (pc[w] \in AfterTerminal /\ pc'[w] # pc[w]) =>
                /\ download_progress' = download_progress
                /\ is_downloading' = is_downloading]_vars

\* C22 as it holds: every started worker gets to its end; it gets there only
\* through one of the four terminal status writes and writes no status after
\* it; what it still writes after the status is the field that goes with it
\* (error, successful) and is_downloading = False; once ended it takes no step
C22_RunTerminates ==
    /\ \A w \in Workers : (pc[w] = "set_flag") ~> (pc[w] = "done")
    /\ [][\A w \in Workers :
            /\ (pc[w] \in TerminalWrites /\ pc'[w] # pc[w]) =>
                  /\ download_progress'.status \in Terminal
                  /\ pc'[w] \in AfterTerminal
            /\ (pc[w] \notin TerminalWrites \cup AfterTerminal /\ pc'[w] # pc[w]) =>
                  /\ pc'[w] \notin AfterTerminal
                  /\ download_progress'.status \notin Terminal
                       \/ download_progress'.status = download_progress.status
            /\ (pc[w] \in AfterTerminal /\ pc'[w] # pc[w]) =>
                  /\ pc'[w] \in AfterTerminal
                  /\ download_progress'.status = download_progress.status
                  /\ download_progress'.current = download_progress.current
                  /\ download_progress'.total = download_progress.total
                  /\ is_downloading' = is_downloading \/ ~is_downloading'
            /\ pc[w] = "done" => pc'[w] = "done"]_vars

\* both workers have ended, one 'completed' with its count written after the
\* status, and the flag is off
C22_BothWorkersEnded ==
    /\ pc[1] = "done"
    /\ pc[2] = "done"
    /\ download_progress.status = "completed"
    /\ download_progress.successful # <<>>
    /\ ~is_downloading

====
